---- MODULE Spec2Model ----
(***************************************************************************)
(* NextFLAPPlanner (src/__init__.py): the adapter that forwards every call *)
(* to the external NextFLAPImpl of the up_nextflap package.                *)
(*                                                                         *)
(* The external package is the environment.  Whether `from up_nextflap     *)
(* import NextFLAPImpl` resolves, and what each call of NextFLAPImpl       *)
(* returns or raises, are inputs of the step that makes the call.          *)
(***************************************************************************)
EXTENDS Integers, Sequences, FiniteSets

VARIABLES
    nextflap_engine,  \* the attribute self._nextflap_engine, or Absent
    ctor,             \* what __init__ did for the current instance, or NoStep
    destroyed,        \* the engine's destroy() was called for this instance
    last              \* the most recent call on the adapter and what it did

vars == <<nextflap_engine, ctor, destroyed, last>>

\* ---- bounds of the model ------------------------------------------------
MaxArg == 2
MaxResult == 2
MaxFeature == 2

\* ---- python values --------------------------------------------------------
NoneVal == [tag |-> "None", n |-> 0, b |-> FALSE, fs |-> {}, s |-> ""]
Obj(i) == [NoneVal EXCEPT !.tag = "object", !.n = i]
Bool(x) == [NoneVal EXCEPT !.tag = "bool", !.b = x]
Kind(features) == [NoneVal EXCEPT !.tag = "ProblemKind", !.fs = features]
Str(x) == [NoneVal EXCEPT !.tag = "str", !.s = x]
Absent == [NoneVal EXCEPT !.tag = "absent"]

Callable == [NoneVal EXCEPT !.tag = "Callable"]
Float == [NoneVal EXCEPT !.tag = "float"]
IO == [NoneVal EXCEPT !.tag = "IO"]
Credits == [NoneVal EXCEPT !.tag = "Credits"]

\* problems, plans, plan kinds and keyword options: opaque objects
Objects == {Obj(i) : i \in 1..MaxArg}
\* the optional arguments of _solve
Callbacks == {NoneVal, Callable}
Timeouts == {NoneVal, Float}
Streams == {NoneVal, IO}
Features == 1..MaxFeature
ProblemKinds == {Kind(f) : f \in SUBSET Features}

\* ---- exceptions -----------------------------------------------------------
NoError == [type |-> "none", origin |-> "none", remediation |-> <<>>, cause |-> <<>>]
ModuleNotFoundError ==
    [type |-> "ImportError", origin |-> "import up_nextflap",
     remediation |-> <<>>, cause |-> <<>>]
RuntimeError ==
    [type |-> "RuntimeError", origin |-> "NextFLAP engine not properly initialized",
     remediation |-> <<>>, cause |-> <<>>]
EngineErrors ==
    {[type |-> t, origin |-> "NextFLAPImpl", remediation |-> <<>>, cause |-> <<>>] :
        t \in {"ImportError", "Exception"}}

\* _on_import_error(e): a new ImportError that names the install script; the
\* caller raises it `from e`, so e is its cause.
_on_import_error(e) ==
    [type |-> "ImportError", origin |-> "_on_import_error",
     remediation |-> <<"bash", "current_dir", "install.sh">>, cause |-> <<e>>]

\* ---- outcomes of a call ---------------------------------------------------
Ret(v) == [kind |-> "return", value |-> v, error |-> NoError]
Exc(e) == [kind |-> "raise", value |-> NoneVal, error |-> e]

Raises == {Exc(e) : e \in EngineErrors}
CtorOutcomes == {Ret(o) : o \in Objects} \cup Raises
ResultOutcomes == {Ret(Obj(i)) : i \in 1..MaxResult} \cup Raises
KindOutcomes == {Ret(k) : k \in ProblemKinds} \cup Raises
BoolOutcomes == {Ret(Bool(x)) : x \in BOOLEAN} \cup Raises
CreditsOutcomes == {Ret(NoneVal), Ret(Credits)} \cup Raises
DestroyOutcomes == {Ret(NoneVal)} \cup Raises

\* One call of the external implementation: the receiver (the class for the
\* static calls), the function, the arguments it received, what it did.
Call(target, fn, args, out) == [target |-> target, fn |-> fn, args |-> args, out |-> out]
NextFLAPImpl == Str("NextFLAPImpl")

\* What one call on the adapter did: the resolutions it attempted, the external
\* calls it made, and its own outcome.
Done(imports, calls, out) ==
    [imports |-> imports, calls |-> calls,
     kind |-> out.kind, value |-> out.value, error |-> out.error]

Step(op, args, did) ==
    [op |-> op, args |-> args, imports |-> did.imports, calls |-> did.calls,
     kind |-> did.kind, value |-> did.value, error |-> did.error]

NoStep == Step("none", <<>>, Done(<<>>, <<>>, [kind |-> "none", value |-> NoneVal, error |-> NoError]))

\* `from up_nextflap import NextFLAPImpl`
import_NextFLAPImpl(resolved) ==
    IF resolved THEN Ret(NextFLAPImpl) ELSE Exc(ModuleNotFoundError)

\* `except ImportError as e: raise _on_import_error(e) from e` around a try body
except_ImportError(body) ==
    IF body.kind = "raise" /\ body.error.type = "ImportError"
    THEN Exc(_on_import_error(body.error))
    ELSE body

hasattr(engine) == engine # Absent

\* ---- NextFLAPPlanner -------------------------------------------------------

\* A bug __init__ could have: the failed import is swallowed and construction
\* returns an adapter without an engine.
init_degraded(kwargs, resolved, out) ==
    LET imp == import_NextFLAPImpl(resolved)
        body == IF imp.kind = "raise" THEN Ret(NoneVal)
                ELSE IF out.kind = "raise" THEN out ELSE Ret(NoneVal)
    IN  [did |-> Done(<<resolved>>,
                      IF resolved THEN <<Call(NextFLAPImpl, "__init__", <<kwargs>>, out)>> ELSE <<>>,
                      except_ImportError(body)),
         engine |-> IF resolved /\ out.kind = "return" THEN out.value ELSE Absent]

\* A bug __init__ could have: `self._nextflap_engine = None` ahead of the try.
init_placeholder(kwargs, resolved, out) ==
    LET imp == import_NextFLAPImpl(resolved)
        body == IF imp.kind = "raise" THEN imp
                ELSE IF out.kind = "raise" THEN out ELSE Ret(NoneVal)
    IN  [did |-> Done(<<resolved>>,
                      IF resolved THEN <<Call(NextFLAPImpl, "__init__", <<kwargs>>, out)>> ELSE <<>>,
                      except_ImportError(body)),
         engine |-> IF resolved /\ out.kind = "return" THEN out.value ELSE NoneVal]

\* __init__(self, **kwargs): the import and the constructor call are both
\* inside the try; the attribute is assigned only when both succeed.
__init__(kwargs, resolved, out) ==
    LET imp == import_NextFLAPImpl(resolved)
        calls == IF imp.kind = "raise" THEN <<>>
                 ELSE <<Call(NextFLAPImpl, "__init__", <<kwargs>>, out)>>
        body == IF imp.kind = "raise" THEN imp
                ELSE IF out.kind = "raise" THEN out
                ELSE Ret(NoneVal)
    IN  [did |-> Done(<<resolved>>, calls, except_ImportError(body)),
         engine |-> IF body.kind = "return" THEN out.value ELSE Absent]

\* name: a literal, no import.
name == Done(<<>>, <<>>, Ret(Str("nextflap")))

\* supported_kind(): import, then NextFLAPImpl.supported_kind(), both in the try.
supported_kind(resolved, out) ==
    LET imp == import_NextFLAPImpl(resolved)
        calls == IF imp.kind = "raise" THEN <<>>
                 ELSE <<Call(NextFLAPImpl, "supported_kind", <<>>, out)>>
        body == IF imp.kind = "raise" THEN imp ELSE out
    IN  Done(<<resolved>>, calls, except_ImportError(body))

\* ProblemKind.__le__ of unified_planning: the features of a are among those of b.
Le(a, b) == a.fs \subseteq b.fs

\* A bug supports could have: equality in place of the order.
supports_eq(problem_kind, resolved, out) ==
    LET sk == supported_kind(resolved, out)
    IN  IF sk.kind = "raise" THEN sk
        ELSE Done(sk.imports, sk.calls, Ret(Bool(problem_kind = sk.value)))

\* supports(problem_kind): problem_kind <= NextFLAPPlanner.supported_kind()
supports(problem_kind, resolved, out) ==
    LET sk == supported_kind(resolved, out)
    IN  IF sk.kind = "raise" THEN sk
        ELSE Done(sk.imports, sk.calls, Ret(Bool(Le(problem_kind, sk.value))))

\* supports_plan(plan_kind)
supports_plan(plan_kind, resolved, out) ==
    LET imp == import_NextFLAPImpl(resolved)
        calls == IF imp.kind = "raise" THEN <<>>
                 ELSE <<Call(NextFLAPImpl, "supports_plan", <<plan_kind>>, out)>>
        body == IF imp.kind = "raise" THEN imp ELSE out
    IN  Done(<<resolved>>, calls, except_ImportError(body))

\* A bug get_credits could have: the import left out, the class bound earlier
\* used instead.
get_credits_bound(kwargs, resolved, out) ==
    Done(<<>>, <<Call(NextFLAPImpl, "get_credits", <<kwargs>>, out)>>, out)

\* get_credits(**kwargs)
get_credits(kwargs, resolved, out) ==
    LET imp == import_NextFLAPImpl(resolved)
        calls == IF imp.kind = "raise" THEN <<>>
                 ELSE <<Call(NextFLAPImpl, "get_credits", <<kwargs>>, out)>>
        body == IF imp.kind = "raise" THEN imp ELSE out
    IN  Done(<<resolved>>, calls, except_ImportError(body))

\* A bug _solve could have: timeout and callback passed in each other's place.
solve_swapped(engine, problem, callback, timeout, output_stream, out) ==
    IF hasattr(engine)
    THEN Done(<<>>, <<Call(engine, "_solve", <<problem, timeout, callback, output_stream>>, out)>>, out)
    ELSE Done(<<>>, <<>>, Exc(RuntimeError))

\* _solve(self, problem, callback, timeout, output_stream)
_solve(engine, problem, callback, timeout, output_stream, out) ==
    IF hasattr(engine)
    THEN Done(<<>>, <<Call(engine, "_solve", <<problem, callback, timeout, output_stream>>, out)>>, out)
    ELSE Done(<<>>, <<>>, Exc(RuntimeError))

\* A bug _validate could have: no hasattr test before the forward.
validate_unchecked(engine, problem, plan, out) ==
    Done(<<>>, <<Call(engine, "_validate", <<problem, plan>>, out)>>, out)

\* A bug _validate could have: a second attempt when the engine raises.
validate_retry(engine, problem, plan, out) ==
    IF hasattr(engine)
    THEN Done(<<>>,
              IF out.kind = "raise"
              THEN <<Call(engine, "_validate", <<problem, plan>>, out),
                     Call(engine, "_validate", <<problem, plan>>, out)>>
              ELSE <<Call(engine, "_validate", <<problem, plan>>, out)>>,
              out)
    ELSE Done(<<>>, <<>>, Exc(RuntimeError))

\* _validate(self, problem, plan)
_validate(engine, problem, plan, out) ==
    IF hasattr(engine)
    THEN Done(<<>>, <<Call(engine, "_validate", <<problem, plan>>, out)>>, out)
    ELSE Done(<<>>, <<>>, Exc(RuntimeError))

\* A bug destroy could have: no hasattr test before the forward.
destroy_unchecked(engine, out) ==
    Done(<<>>, <<Call(engine, "destroy", <<>>, out)>>,
         IF out.kind = "raise" THEN out ELSE Ret(NoneVal))

\* destroy(self): forwards when the attribute is there, and has no return
\* statement; the attribute is not deleted.
destroy(engine, out) ==
    IF hasattr(engine)
    THEN Done(<<>>, <<Call(engine, "destroy", <<>>, out)>>,
              IF out.kind = "raise" THEN out ELSE Ret(NoneVal))
    ELSE Done(<<>>, <<>>, Ret(NoneVal))

\* ---- the state machine -----------------------------------------------------

\* An instance object before __init__ has run on it.
Init ==
    /\ nextflap_engine = Absent
    /\ ctor = NoStep
    /\ destroyed = FALSE
    /\ last = NoStep

\* NextFLAPPlanner(**kwargs): a new instance, which the model follows from now on.
Construct ==
    \E kwargs \in Objects, resolved \in BOOLEAN, out \in CtorOutcomes :
        LET r == __init__(kwargs, resolved, out)
        IN  /\ nextflap_engine' = r.engine
            /\ ctor' = Step("__init__", <<kwargs>>, r.did)
            /\ last' = Step("__init__", <<kwargs>>, r.did)
            /\ destroyed' = FALSE

GetName ==
    /\ last' = Step("name", <<>>, name)
    /\ UNCHANGED <<nextflap_engine, ctor, destroyed>>

SupportedKind ==
    \E resolved \in BOOLEAN, out \in KindOutcomes :
        /\ last' = Step("supported_kind", <<>>, supported_kind(resolved, out))
        /\ UNCHANGED <<nextflap_engine, ctor, destroyed>>

Supports ==
    \E k \in ProblemKinds, resolved \in BOOLEAN, out \in KindOutcomes :
        /\ last' = Step("supports", <<k>>, supports(k, resolved, out))
        /\ UNCHANGED <<nextflap_engine, ctor, destroyed>>

SupportsPlan ==
    \E pk \in Objects, resolved \in BOOLEAN, out \in BoolOutcomes :
        /\ last' = Step("supports_plan", <<pk>>, supports_plan(pk, resolved, out))
        /\ UNCHANGED <<nextflap_engine, ctor, destroyed>>

GetCredits ==
    \E kwargs \in Objects, resolved \in BOOLEAN, out \in CreditsOutcomes :
        /\ last' = Step("get_credits", <<kwargs>>, get_credits(kwargs, resolved, out))
        /\ UNCHANGED <<nextflap_engine, ctor, destroyed>>

Solve ==
    \E problem \in Objects, callback \in Callbacks, timeout \in Timeouts,
       output_stream \in Streams, out \in ResultOutcomes :
        /\ last' = Step("_solve", <<problem, callback, timeout, output_stream>>,
                        _solve(nextflap_engine, problem, callback, timeout, output_stream, out))
        /\ UNCHANGED <<nextflap_engine, ctor, destroyed>>

Validate ==
    \E problem \in Objects, plan \in Objects, out \in ResultOutcomes :
        /\ last' = Step("_validate", <<problem, plan>>,
                        _validate(nextflap_engine, problem, plan, out))
        /\ UNCHANGED <<nextflap_engine, ctor, destroyed>>

Destroy ==
    \E out \in DestroyOutcomes :
        LET did == destroy(nextflap_engine, out)
        IN  /\ last' = Step("destroy", <<>>, did)
            /\ destroyed' = (destroyed \/ did.calls # <<>>)
            /\ UNCHANGED <<nextflap_engine, ctor>>

Next ==
    \/ Construct
    \/ GetName
    \/ SupportedKind
    \/ Supports
    \/ SupportsPlan
    \/ GetCredits
    \/ Solve
    \/ Validate
    \/ Destroy

Spec == Init /\ [][Next]_vars

\* ---- properties ------------------------------------------------------------

DependencyMissing(step) ==
    step.kind = "raise" /\ step.error.origin = "_on_import_error"
NotInitialized(step) ==
    step.kind = "raise" /\ step.error = RuntimeError
ResolutionFailed(step) == step.imports = <<FALSE>>
ConstructionSucceeded == ctor.op = "__init__" /\ ctor.kind = "return"

\* C1: when the import of the implementation fails, __init__ itself raises the
\* error built by _on_import_error, whose cause is the import's error and whose
\* remediation is not empty; the constructor of the implementation is not called
\* and the instance has no engine attribute, then and after any later calls.
C1_MissingDependencyFailsConstruction ==
    (ctor.op = "__init__" /\ ResolutionFailed(ctor)) =>
        /\ DependencyMissing(ctor)
        /\ ctor.error.type = "ImportError"
        /\ ctor.error.cause = <<ModuleNotFoundError>>
        /\ ctor.error.remediation # <<>>
        /\ ctor.calls = <<>>
        /\ ~hasattr(nextflap_engine)

C1_Witness ==
    /\ ctor.op = "__init__" /\ ResolutionFailed(ctor)
    /\ last.op = "_solve"

\* C2: in every state the instance has the engine attribute exactly when
\* __init__ returned normally, whatever made it fail and whatever _solve,
\* _validate and destroy calls followed.
C2_HandleIffConstructed ==
    hasattr(nextflap_engine) <=> ConstructionSucceeded

C2_Witness ==
    /\ ctor.kind = "raise" /\ ctor.error.type = "Exception"
    /\ ~hasattr(nextflap_engine)
    /\ last.op = "destroy"

C2_WitnessReady ==
    /\ ConstructionSucceeded /\ hasattr(nextflap_engine)
    /\ destroyed /\ last.op = "_validate"

\* C3: _solve or _validate on an instance without the engine attribute raises
\* the RuntimeError "not properly initialized" and calls nothing external.
C3_NoHandleRaisesNotInitialized ==
    (last.op \in {"_solve", "_validate"} /\ ~hasattr(nextflap_engine)) =>
        /\ NotInitialized(last)
        /\ last.calls = <<>>

C3_Witness ==
    /\ last.op = "_validate" /\ ~hasattr(nextflap_engine)
    /\ ctor.op = "__init__" /\ ctor.kind = "raise"

\* C4: after destroy() on a ready adapter, a _solve call never returns a result.
C4_SolveAfterDestroyFails ==
    (destroyed /\ last.op = "_solve") => last.kind = "raise"

\* C5: destroy() on an instance without the engine attribute calls nothing
\* external, returns None without raising, and changes nothing of the instance.
C5_DestroyUnreadyIsNoOp ==
    [][(last'.op = "destroy" /\ ~hasattr(nextflap_engine)) =>
          /\ last'.calls = <<>>
          /\ last'.imports = <<>>
          /\ last'.kind = "return" /\ last'.value = NoneVal
          /\ nextflap_engine' = nextflap_engine
          /\ ctor' = ctor
          /\ destroyed' = destroyed]_vars

C5_Witness ==
    /\ last.op = "destroy" /\ ~hasattr(nextflap_engine)
    /\ last.kind = "return" /\ ~destroyed

\* C6: when the implementation reports a kind, supports(k) returns whether the
\* features of k are among the reported ones, and returns true for the empty
\* feature set whatever is reported.
C6_SupportsIsSubset ==
    (last.op = "supports" /\ last.calls # <<>> /\ last.calls[1].out.kind = "return") =>
        /\ last.kind = "return"
        /\ last.value = Bool(last.args[1].fs \subseteq last.calls[1].out.value.fs)
        /\ (last.args[1].fs = {} => last.value.b)

C6_Witness ==
    /\ last.op = "supports" /\ last.kind = "return" /\ last.value.b
    /\ last.args[1].fs # {}
    /\ last.args[1].fs # last.calls[1].out.value.fs

StaticQueries == {"supported_kind", "supports", "supports_plan", "get_credits"}

\* C7 as stated: each of name, supported_kind, supports, supports_plan and
\* get_credits attempts one resolution per call and raises the error of
\* _on_import_error when that resolution fails.
C7_EveryQueryResolves ==
    (last.op \in StaticQueries \cup {"name"}) =>
        /\ Len(last.imports) = 1
        /\ (ResolutionFailed(last) => DependencyMissing(last))

\* C7 amended: each of supported_kind, supports, supports_plan and get_credits
\* attempts one resolution per call, in any state of the instance, and raises
\* the error of _on_import_error when it fails; name attempts none and returns
\* "nextflap".
C7_StaticQueriesResolve ==
    /\ (last.op \in StaticQueries) =>
          /\ Len(last.imports) = 1
          /\ (ResolutionFailed(last) =>
                DependencyMissing(last) /\ last.calls = <<>>
                /\ last.error.cause = <<ModuleNotFoundError>>)
    /\ (last.op = "name") =>
          /\ last.imports = <<>>
          /\ last.kind = "return" /\ last.value = Str("nextflap")

C7_Witness ==
    /\ last.op = "get_credits" /\ ResolutionFailed(last)
    /\ hasattr(nextflap_engine)

\* C8: on an instance with the engine attribute, _solve and _validate make one
\* call of the same function on that engine with the arguments they received, in
\* the same order, and end as that call ended: same value or same error.
C8_ForwardsUnchanged ==
    (last.op \in {"_solve", "_validate"} /\ hasattr(nextflap_engine)) =>
        /\ Len(last.calls) = 1
        /\ last.calls[1].target = nextflap_engine
        /\ last.calls[1].fn = last.op
        /\ last.calls[1].args = last.args
        /\ last.kind = last.calls[1].out.kind
        /\ last.value = last.calls[1].out.value
        /\ last.error = last.calls[1].out.error

C8_Witness ==
    /\ last.op = "_solve" /\ hasattr(nextflap_engine)
    /\ last.kind = "return" /\ last.value = Obj(MaxResult)
    /\ last.args = <<Obj(MaxArg), Callable, Float, NoneVal>>

\* C9: the error of _on_import_error is raised only when the import of the
\* implementation failed, never for an error raised by the implementation.
C9_DependencyMissingOnlyOnResolution ==
    DependencyMissing(last) =>
        /\ ResolutionFailed(last)
        /\ last.error.cause = <<ModuleNotFoundError>>

\* C10: a call of _solve, _validate or destroy makes at most one external call,
\* of the corresponding function, and when that call raises, the adapter raises
\* the same error.
C10_NoRetry ==
    (last.op \in {"_solve", "_validate", "destroy"}) =>
        /\ Len(last.calls) <= 1
        /\ \A i \in 1..Len(last.calls) :
              /\ last.calls[i].fn = last.op
              /\ (last.calls[i].out.kind = "raise" =>
                    last.kind = "raise" /\ last.error = last.calls[i].out.error)

C10_Witness ==
    /\ last.op = "_validate" /\ Len(last.calls) = 1
    /\ last.calls[1].out.kind = "raise" /\ last.kind = "raise"
====
